---- MODULE Spec2Model ----
(***************************************************************************)
(* Model of the review backend in src/server.js (first revision, lines     *)
(* 1-205): the Express handlers for /reviews, /reviews/helpful,            *)
(* /order-count, /review-stats and /ping over a Mongoose "Review" model.   *)
(*                                                                         *)
(* A handler runs to its first `await` in one step (the *Start action) and *)
(* its continuation runs in a second step (the *Finish action): Node runs  *)
(* synchronous JavaScript to completion, so the only interleaving points   *)
(* are the awaits.  The store operation awaited by a handler is a single   *)
(* MongoDB operation on one document or one query, applied atomically      *)
(* when the *Finish action fires.                                          *)
(***************************************************************************)
EXTENDS Integers, Sequences, FiniteSets, Bags, TLC

(* ---- bounds of the model ---- *)
MaxReq == 3          \* requests accepted in one behaviour
MaxNow == 1          \* last instant of the clock
TicksPerDay == 1     \* clock instants per calendar day
MaxOrders == 1       \* largest number of orders the upstream API returns

(* ---- JavaScript values carried by request bodies and queries ---- *)
Undef == [t |-> "undefined", s |-> "", n |-> 0]
Str(x) == [t |-> "string", s |-> x, n |-> 0]
Num(k) == [t |-> "number", s |-> "", n |-> k]

\* `!v` of JavaScript: undefined, "" and 0 are falsy.
Falsy(v) ==
  \/ v.t = "undefined"
  \/ v.t = "string" /\ v.s = ""
  \/ v.t = "number" /\ v.n = 0

(* ---- Mongoose schema casts (reviewSchema) ---- *)
\* String path: a number is stored as its decimal string.
castString(v) == IF v.t = "number" THEN ToString(v.n) ELSE v.s

\* Number path: a number is stored as it is; a string that is not numeric
\* (the only strings drawn for rating) does not cast.
castNumberOk(v) == v.t = "number"

castNumber(v) == IF v.t = "number" THEN v.n ELSE 0

\* the k-th ObjectId generated by the driver, as its 24-digit hex string
HexOf(k) == "oid" \o ToString(k)

\* _id path: only a well-formed hex string casts to an ObjectId.
castObjectIdOk(v) == v.t = "string" /\ \E k \in 1..MaxReq : HexOf(k) = v.s

castObjectId(v) == CHOOSE k \in 1..MaxReq : HexOf(k) = v.s

(* ---- inputs ---- *)
QueryVals == {Undef, Str("p1"), Str("7")}
ReviewIdVals == {Str(HexOf(1)), Str(HexOf(2)), Str("abc")}

\* a body with all four fields
GoodBody ==
  [product_id |-> Str("p1"), customer_name |-> Str("alice"),
   rating |-> Num(5), comment |-> Str("ok")]

\* request bodies: GoodBody, and GoodBody with one field omitted or replaced
Bodies ==
  {GoodBody}
    \cup {[GoodBody EXCEPT !.product_id = v] : v \in {Undef, Num(7)}}
    \cup {[GoodBody EXCEPT !.customer_name = v] : v \in {Undef}}
    \cup {[GoodBody EXCEPT !.rating = v] : v \in {Undef, Num(0), Num(6), Str("bad")}}
    \cup {[GoodBody EXCEPT !.comment = v] : v \in {Undef}}

EmptyBody ==
  [product_id |-> Undef, customer_name |-> Undef, rating |-> Undef, comment |-> Undef]

(* ---- null of the daily-offset cache ---- *)
Null == -1

VARIABLES
  reviews,            \* the Review collection: _id -> document
  nextId,             \* next ObjectId the driver generates
  now,                \* the clock (Date.now())
  lastRandomValue,    \* daily-offset cache: the value
  lastGeneratedDate,  \* daily-offset cache: the day it was drawn on
  pending,            \* handlers suspended at their await (a bag)
  nreq,               \* requests accepted so far
  resp,               \* the response sent last
  nresp,              \* responses sent so far
  acked,              \* history: documents whose POST /reviews was answered 200
  incs,               \* history: _id -> number of 200 answers of /reviews/helpful
  served              \* history: the 200 answers of /order-count (a bag)

vars ==
  <<reviews, nextId, now, lastRandomValue, lastGeneratedDate, pending, nreq,
    resp, nresp, acked, incs, served>>

(* ---- documents, suspended handlers, responses ---- *)
NoDoc ==
  [id |-> 0, product_id |-> "", customer_name |-> "", rating |-> 0,
   comment |-> "", helpful |-> 0, created_at |-> Null]

NoReq ==
  [kind |-> "none", arg |-> Undef, body |-> EmptyBody,
   doc |-> NoDoc, castErr |-> FALSE]

NoRatings == [k \in {} |-> 0]

NoResp ==
  [kind |-> "none", status |-> 0, req |-> NoReq, list |-> <<>>, success |-> FALSE,
   helpful |-> 0, count |-> 0, actual |-> 0, offset |-> 0, day |-> 0,
   totalReviews |-> 0, ratings |-> NoRatings, dbErr |-> FALSE, queried |-> FALSE]

(* ---- POST /reviews ---- *)
\* variant: the check that forgets `comment`
MissingRequiredNoComment(body) ==
  \/ Falsy(body.product_id)
  \/ Falsy(body.customer_name)
  \/ Falsy(body.rating)

\* the presence check of the handler
MissingRequired(body) ==
  \/ Falsy(body.product_id)
  \/ Falsy(body.customer_name)
  \/ Falsy(body.rating)
  \/ Falsy(body.comment)

\* new Review({...}): the schema casts the four fields and applies the
\* defaults helpful = 0 and created_at = Date.now(); the driver assigns _id.
NewReview(body, id, t) ==
  [id |-> id,
   product_id |-> castString(body.product_id),
   customer_name |-> castString(body.customer_name),
   rating |-> castNumber(body.rating),
   comment |-> castString(body.comment),
   helpful |-> 0,
   created_at |-> t]

\* a field that does not cast makes save() reject with a validation error
CastFails(body) == ~castNumberOk(body.rating)

\* variant: a save that is never written
SaveNothing(rs, doc) == rs

\* variant: a save that replaces the collection by the new document
SaveReplace(rs, doc) == [i \in {doc.id} |-> doc]

\* newReview.save(): insert the document under its _id
Save(rs, doc) ==
  [i \in DOMAIN rs \cup {doc.id} |-> IF i = doc.id THEN doc ELSE rs[i]]

(* ---- GET /reviews ---- *)
\* variant: the check that lets an absent product_id through
MissingProductIdEmptyOnly(q) == q.t = "string" /\ q.s = ""

\* the presence check of the handler
MissingProductId(q) == Falsy(q)

\* Review.find({ product_id }): the documents whose product_id equals the filter
Find(rs, p) == {rs[i] : i \in {j \in DOMAIN rs : rs[j].product_id = p}}

\* variant: .sort({ created_at: 1 })
SortOrderAscending(a, b) == a.created_at =< b.created_at

\* .sort({ created_at: -1 }): a before b is admissible
SortOrder(a, b) == a.created_at >= b.created_at

\* every ordering of the documents of S the sort may return (ties in any order)
Sorted(S) ==
  {f \in [1..Cardinality(S) -> S] :
     /\ \A i, j \in 1..Cardinality(S) : i # j => f[i] # f[j]
     /\ \A i \in 1..(Cardinality(S) - 1) : SortOrder(f[i], f[i + 1])}

(* ---- POST /reviews/helpful ---- *)
\* variant: { $set: { helpful: 1 } }
IncHelpfulSet(rs, id) == [rs EXCEPT ![id].helpful = 1]

\* findByIdAndUpdate(id, { $inc: { helpful: 1 } }, { new: true })
IncHelpful(rs, id) == [rs EXCEPT ![id].helpful = @ + 1]

(* ---- GET /review-stats ---- *)
\* Review.aggregate([{ $group: { _id: "$rating", count: { $sum: 1 } } }])
Aggregate(rs) ==
  {[_id |-> r, count |-> Cardinality({i \in DOMAIN rs : rs[i].rating = r})] :
     r \in {rs[i].rating : i \in DOMAIN rs}}

RECURSIVE SumCounts(_)
\* stats.reduce((sum, item) => sum + item.count, 0)
SumCounts(stats) ==
  IF stats = {} THEN 0
  ELSE LET item == CHOOSE g \in stats : TRUE
       IN item.count + SumCounts(stats \ {item})

\* ratings = {5:0, 4:0, 3:0, 2:0, 1:0}; ratings[item._id] = item.count
Ratings(stats) ==
  [k \in (1..5) \cup {g._id : g \in stats} |->
     IF \E g \in stats : g._id = k
     THEN (CHOOSE g \in stats : g._id = k).count
     ELSE 0]

(* ---- GET /order-count ---- *)
\* new Date().toISOString().slice(0, 10)
DayOf(t) == t \div TicksPerDay

\* Math.floor(Math.random() * 6) + 1
RandomValues == {u + 1 : u \in 0..5}

\* `x || 0`
OrZero(x) == IF x = Null \/ x = 0 THEN 0 ELSE x

\* variant: a new value is drawn on every call
getDailyRandomOffsetAlways(lrv, lgd, today, rnd) ==
  [value |-> OrZero(rnd), lastRandomValue |-> rnd, lastGeneratedDate |-> today]

\* variant: the value read before the cache is refreshed is returned
getDailyRandomOffsetStale(lrv, lgd, today, rnd) ==
  IF lgd # today
  THEN [value |-> OrZero(lrv), lastRandomValue |-> rnd, lastGeneratedDate |-> today]
  ELSE [value |-> OrZero(lrv), lastRandomValue |-> lrv, lastGeneratedDate |-> lgd]

\* getDailyRandomOffset(): the value returned and the cache it leaves
getDailyRandomOffset(lrv, lgd, today, rnd) ==
  IF lgd # today
  THEN [value |-> OrZero(rnd), lastRandomValue |-> rnd, lastGeneratedDate |-> today]
  ELSE [value |-> OrZero(lrv), lastRandomValue |-> lrv, lastGeneratedDate |-> lgd]

(* ---- initial state ---- *)
Init ==
  /\ reviews = [i \in {} |-> NoDoc]
  /\ nextId = 1
  /\ now = 0
  /\ lastRandomValue = Null
  /\ lastGeneratedDate = Null
  /\ pending = EmptyBag
  /\ nreq = 0
  /\ resp = NoResp
  /\ nresp = 0
  /\ acked = {}
  /\ incs = [i \in {} |-> 0]
  /\ served = EmptyBag

\* a request is accepted: the handler is entered
Accept(kind, arg, body) ==
  [kind |-> kind, arg |-> arg, body |-> body, doc |-> NoDoc, castErr |-> FALSE]

\* the handler suspends at its await / resumes from it
Suspend(r) == pending' = pending (+) SetToBag({r})

Resume(r) == pending' = pending (-) SetToBag({r})

\* the suspended handlers
Suspended == BagToSet(pending)

\* res.status(..).json(..) / res.json(..) / res.send(..)
Send(r) ==
  /\ resp' = r
  /\ nresp' = nresp + 1

\* the clock advances
Tick ==
  /\ now < MaxNow
  /\ now' = now + 1
  /\ UNCHANGED <<reviews, nextId, lastRandomValue, lastGeneratedDate, pending,
                 nreq, resp, nresp, acked, incs, served>>

(* ---- GET /reviews ---- *)
GetReviewsStart(q) ==
  /\ nreq < MaxReq
  /\ nreq' = nreq + 1
  /\ LET r == Accept("getReviews", q, EmptyBody)
     IN IF MissingProductId(q)
        THEN /\ Send([NoResp EXCEPT !.kind = "getReviews", !.status = 400, !.req = r])
             /\ UNCHANGED pending
        ELSE /\ Suspend(r)
             /\ UNCHANGED <<resp, nresp>>
  /\ UNCHANGED <<reviews, nextId, now, lastRandomValue, lastGeneratedDate,
                 acked, incs, served>>

GetReviewsFinish(r, ok) ==
  /\ r.kind = "getReviews"
  /\ Resume(r)
  /\ IF ok
     THEN \E l \in Sorted(Find(reviews, castString(r.arg))) :
            Send([NoResp EXCEPT !.kind = "getReviews", !.status = 200, !.req = r,
                                !.list = l, !.queried = TRUE])
     ELSE Send([NoResp EXCEPT !.kind = "getReviews", !.status = 500, !.req = r,
                              !.dbErr = TRUE, !.queried = TRUE])
  /\ UNCHANGED <<reviews, nextId, now, lastRandomValue, lastGeneratedDate,
                 nreq, acked, incs, served>>

(* ---- POST /reviews ---- *)
PostReviewStart(body) ==
  /\ nreq < MaxReq
  /\ nreq' = nreq + 1
  /\ LET r == Accept("postReview", Undef, body)
     IN IF MissingRequired(body)
        THEN /\ Send([NoResp EXCEPT !.kind = "postReview", !.status = 400, !.req = r])
             /\ UNCHANGED <<pending, nextId>>
        ELSE /\ Suspend([r EXCEPT !.doc = NewReview(body, nextId, now),
                                !.castErr = CastFails(body)])
             /\ nextId' = nextId + 1
             /\ UNCHANGED <<resp, nresp>>
  /\ UNCHANGED <<reviews, now, lastRandomValue, lastGeneratedDate,
                 acked, incs, served>>

PostReviewFinish(r, ok) ==
  /\ r.kind = "postReview"
  /\ Resume(r)
  /\ IF r.castErr
     THEN /\ Send([NoResp EXCEPT !.kind = "postReview", !.status = 500, !.req = r])
          /\ UNCHANGED <<reviews, acked, incs>>
     ELSE IF ok
     THEN /\ reviews' = Save(reviews, r.doc)
          /\ Send([NoResp EXCEPT !.kind = "postReview", !.status = 200, !.req = r,
                                 !.success = TRUE])
          /\ acked' = acked \cup {r.doc}
          /\ incs' = [i \in DOMAIN incs \cup {r.doc.id} |->
                        IF i \in DOMAIN incs THEN incs[i] ELSE 0]
     ELSE /\ Send([NoResp EXCEPT !.kind = "postReview", !.status = 500, !.req = r,
                                 !.dbErr = TRUE])
          /\ UNCHANGED <<reviews, acked, incs>>
  /\ UNCHANGED <<nextId, now, lastRandomValue, lastGeneratedDate, nreq,
                 served>>

(* ---- POST /reviews/helpful ---- *)
HelpfulStart(review_id) ==
  /\ nreq < MaxReq
  /\ nreq' = nreq + 1
  /\ Suspend(Accept("helpful", review_id, EmptyBody))
  /\ UNCHANGED <<reviews, nextId, now, lastRandomValue, lastGeneratedDate,
                 resp, nresp, acked, incs, served>>

HelpfulFinish(r, ok) ==
  /\ r.kind = "helpful"
  /\ Resume(r)
  /\ IF ~castObjectIdOk(r.arg)
     THEN /\ Send([NoResp EXCEPT !.kind = "helpful", !.status = 500, !.req = r])
          /\ UNCHANGED <<reviews, incs>>
     ELSE IF ~ok
     THEN /\ Send([NoResp EXCEPT !.kind = "helpful", !.status = 500, !.req = r,
                                 !.dbErr = TRUE])
          /\ UNCHANGED <<reviews, incs>>
     ELSE IF castObjectId(r.arg) \notin DOMAIN reviews
     THEN /\ Send([NoResp EXCEPT !.kind = "helpful", !.status = 404, !.req = r])
          /\ UNCHANGED <<reviews, incs>>
     ELSE LET id == castObjectId(r.arg)
              updated == IncHelpful(reviews, id)
          IN /\ reviews' = updated
             /\ Send([NoResp EXCEPT !.kind = "helpful", !.status = 200, !.req = r,
                                    !.success = TRUE, !.helpful = updated[id].helpful])
             /\ incs' = [incs EXCEPT ![id] = @ + 1]
  /\ UNCHANGED <<nextId, now, lastRandomValue, lastGeneratedDate, nreq,
                 acked, served>>

(* ---- GET /order-count ---- *)
\* the request carries the day on which it was accepted
OrderCountStart ==
  /\ nreq < MaxReq
  /\ nreq' = nreq + 1
  /\ Suspend(Accept("orderCount", Num(DayOf(now)), EmptyBody))
  /\ UNCHANGED <<reviews, nextId, now, lastRandomValue, lastGeneratedDate,
                 resp, nresp, acked, incs, served>>

\* the upstream call failed
OrderCountFail(r) ==
  /\ r.kind = "orderCount"
  /\ Resume(r)
  /\ Send([NoResp EXCEPT !.kind = "orderCount", !.status = 500, !.req = r])
  /\ UNCHANGED <<reviews, nextId, now, lastRandomValue, lastGeneratedDate,
                 nreq, acked, incs, served>>

\* the upstream call returned `actualCount` orders; rnd is what Math.random yields
OrderCountFinish(r, actualCount, rnd) ==
  /\ r.kind = "orderCount"
  /\ Resume(r)
  /\ LET today == DayOf(now)
         o == getDailyRandomOffset(lastRandomValue, lastGeneratedDate, today, rnd)
         offset == o.value
         displayCount == actualCount + offset
     IN /\ lastRandomValue' = o.lastRandomValue
        /\ lastGeneratedDate' = o.lastGeneratedDate
        /\ Send([NoResp EXCEPT !.kind = "orderCount", !.status = 200, !.req = r,
                               !.count = displayCount, !.actual = actualCount,
                               !.offset = offset, !.day = today])
        /\ served' = served (+) SetToBag({[day |-> today, offset |-> offset,
                                            crossed |-> r.arg.n < today,
                                            held |-> o.lastRandomValue]})
  /\ UNCHANGED <<reviews, nextId, now, nreq, acked, incs>>

(* ---- GET /review-stats ---- *)
StatsStart ==
  /\ nreq < MaxReq
  /\ nreq' = nreq + 1
  /\ Suspend(Accept("stats", Undef, EmptyBody))
  /\ UNCHANGED <<reviews, nextId, now, lastRandomValue, lastGeneratedDate,
                 resp, nresp, acked, incs, served>>

StatsFinish(r, ok) ==
  /\ r.kind = "stats"
  /\ Resume(r)
  /\ IF ok
     THEN LET stats == Aggregate(reviews)
          IN Send([NoResp EXCEPT !.kind = "stats", !.status = 200, !.req = r,
                                 !.totalReviews = SumCounts(stats),
                                 !.ratings = Ratings(stats)])
     ELSE Send([NoResp EXCEPT !.kind = "stats", !.status = 500, !.req = r,
                              !.dbErr = TRUE])
  /\ UNCHANGED <<reviews, nextId, now, lastRandomValue, lastGeneratedDate,
                 nreq, acked, incs, served>>

(* ---- GET /ping ---- *)
Ping ==
  /\ nreq < MaxReq
  /\ nreq' = nreq + 1
  /\ Send([NoResp EXCEPT !.kind = "ping", !.status = 200,
                         !.req = Accept("ping", Undef, EmptyBody)])
  /\ UNCHANGED <<reviews, nextId, now, lastRandomValue, lastGeneratedDate,
                 pending, acked, incs, served>>

\* the review endpoints
NextReviews ==
  \/ \E q \in QueryVals : GetReviewsStart(q)
  \/ \E r \in Suspended, ok \in BOOLEAN : GetReviewsFinish(r, ok)
  \/ \E body \in Bodies : PostReviewStart(body)
  \/ \E r \in Suspended, ok \in BOOLEAN : PostReviewFinish(r, ok)
  \/ \E review_id \in ReviewIdVals : HelpfulStart(review_id)
  \/ \E r \in Suspended, ok \in BOOLEAN : HelpfulFinish(r, ok)
  \/ StatsStart
  \/ \E r \in Suspended, ok \in BOOLEAN : StatsFinish(r, ok)

\* the order-count endpoint and the keep-alive ping
NextOrders ==
  \/ OrderCountStart
  \/ \E r \in Suspended : OrderCountFail(r)
  \/ \E r \in Suspended, c \in 0..MaxOrders, rnd \in RandomValues : OrderCountFinish(r, c, rnd)
  \/ Ping

Next ==
  \/ Tick
  \/ NextReviews
  \/ NextOrders

Spec == Init /\ [][Next]_vars

\* the review endpoints alone
SpecReviews == Init /\ [][Tick \/ NextReviews]_vars

\* the order-count endpoint alone
SpecOrders == Init /\ [][Tick \/ NextOrders]_vars

(***************************************************************************)
(* Properties                                                              *)
(*                                                                         *)
(* The store and the daily-offset cache change only in steps that also     *)
(* send a response, so a state predicate that relates `resp` to `reviews`  *)
(* or to the cache compares the response with the store it was computed    *)
(* from.                                                                   *)
(***************************************************************************)

\* the step sends a response
Responds == nresp' = nresp + 1

\* the response sent last
Answered(kind, status) == resp.kind = kind /\ resp.status = status

\* the entries of a list response
Entries(l) == {l[i] : i \in 1..Len(l)}

\* the body carries the four required fields
AllPresent(body) ==
  /\ body.product_id.t # "undefined"
  /\ body.customer_name.t # "undefined"
  /\ body.rating.t # "undefined"
  /\ body.comment.t # "undefined"

C2_OmittedFieldRejected ==
  [][(Responds /\ resp'.kind = "postReview" /\ ~AllPresent(resp'.req.body))
       => (resp'.status = 400 /\ reviews' = reviews)]_vars

\* C2 witness: a POST with an omitted field was answered while reviews are stored
C2_Witness ==
  /\ resp.kind = "postReview"
  /\ ~AllPresent(resp.req.body)
  /\ resp.status = 400
  /\ DOMAIN reviews # {}

\* C3: a successful POST /reviews/helpful returns the prior helpful value + 1
\* and stores it; helpful of a review equals 0 + the number of successful
\* increments of it, under every interleaving, and never decreases.
C3_HelpfulAtomicIncrement ==
  [][/\ \A id \in DOMAIN reviews :
          id \in DOMAIN reviews' /\ reviews'[id].helpful >= reviews[id].helpful
     /\ \A id \in DOMAIN reviews' : reviews'[id].helpful = incs'[id]
     /\ (Responds /\ resp'.kind = "helpful" /\ resp'.status = 200) =>
          \E id \in DOMAIN reviews :
            /\ resp'.req.arg = Str(HexOf(id))
            /\ resp'.helpful = reviews[id].helpful + 1
            /\ reviews'[id].helpful = reviews[id].helpful + 1]_vars

\* C3 witness: the second increment of a review was answered
C3_Witness ==
  /\ Answered("helpful", 200)
  /\ resp.helpful = 2

\* the value names no stored review
IdentifiesNone(v, rs) == \A id \in DOMAIN rs : v # Str(HexOf(id))

\* C4: a POST /reviews/helpful whose review_id names no stored review, whatever
\* its form, is answered 404 (the store being reachable) and changes no review.
C4_UnknownIdIs404 ==
  [][(/\ Responds
      /\ resp'.kind = "helpful"
      /\ ~resp'.dbErr
      /\ IdentifiesNone(resp'.req.arg, reviews))
       => (resp'.status = 404 /\ reviews' = reviews)]_vars

\* C5: a successful GET /review-stats returns ratings with exactly the keys
\* 1..5, each the number of stored reviews of that rating, and totalReviews =
\* the number of stored reviews.
C5_StatsFiveKeys ==
  Answered("stats", 200) =>
    /\ DOMAIN resp.ratings = 1..5
    /\ \A k \in DOMAIN resp.ratings :
         resp.ratings[k] = Cardinality({id \in DOMAIN reviews : reviews[id].rating = k})
    /\ resp.totalReviews = Cardinality(DOMAIN reviews)

\* C6: a successful GET /reviews?product_id=P returns exactly the stored
\* reviews of product P, each once, ordered by created_at descending.
C6_ListExactDescending ==
  Answered("getReviews", 200) =>
    /\ Entries(resp.list) =
         {reviews[id] : id \in {j \in DOMAIN reviews :
                                  reviews[j].product_id = resp.req.arg.s}}
    /\ Len(resp.list) = Cardinality(Entries(resp.list))
    /\ \A i \in 1..(Len(resp.list) - 1) :
         resp.list[i].created_at >= resp.list[i + 1].created_at

\* C6 witness: two reviews of one product, created at different instants, listed
C6_Witness ==
  /\ Answered("getReviews", 200)
  /\ Len(resp.list) >= 2
  /\ resp.list[1].created_at > resp.list[2].created_at

\* C7: a GET /reviews without product_id is answered 400 with no review data,
\* without querying or changing the store.
C7_MissingProductIdRejected ==
  [][(Responds /\ resp'.kind = "getReviews" /\ resp'.req.arg.t = "undefined")
       => /\ resp'.status = 400
          /\ resp'.list = <<>>
          /\ ~resp'.queried
          /\ reviews' = reviews]_vars

\* C7 witness: such a request was answered while reviews are stored
C7_Witness ==
  /\ Answered("getReviews", 400)
  /\ resp.req.arg.t = "undefined"
  /\ DOMAIN reviews # {}

\* C8: a successful GET /order-count returns the upstream count + an offset in
\* 1..6, and two successful answers whose offset was obtained on the same day
\* carry the same offset.
C8_DailyOffsetFixed ==
  /\ Answered("orderCount", 200) =>
       (resp.count = resp.actual + resp.offset /\ resp.offset \in 1..6)
  /\ \A a, b \in BagToSet(served) :
       /\ a.offset \in 1..6
       /\ a.day = b.day => a.offset = b.offset

\* C8 witness: two answers of one day, and an answer of another day
C8_Witness ==
  \E a, b \in BagToSet(served) :
    /\ CopiesIn(a, served) >= 2
    /\ b.day # a.day

\* C9: no step deletes a stored review or changes its id, product_id,
\* customer_name, rating, comment or created_at; helpful changes only in a step
\* that answers POST /reviews/helpful; the store changes in no step of
\* GET /reviews, GET /review-stats, GET /order-count or GET /ping.
C9_ReviewsFrame ==
  [][/\ \A id \in DOMAIN reviews :
          /\ id \in DOMAIN reviews'
          /\ [reviews'[id] EXCEPT !.helpful = 0] = [reviews[id] EXCEPT !.helpful = 0]
          /\ reviews'[id].helpful # reviews[id].helpful =>
               (Responds /\ resp'.kind = "helpful")
     /\ reviews' # reviews =>
          (Responds /\ resp'.kind \in {"postReview", "helpful"})]_vars

\* C9 witness: an order count was answered while a review marked helpful is stored
C9_Witness ==
  /\ Answered("orderCount", 200)
  /\ \E id \in DOMAIN reviews : reviews[id].helpful = 1

\* two requests accepted before a day began were both answered on that day
BoundaryRace ==
  \E a \in BagToSet(served) :
    /\ a.crossed
    /\ \/ CopiesIn(a, served) >= 2
       \/ \E b \in BagToSet(served) : b # a /\ b.day = a.day /\ b.crossed

\* an answer carried an offset other than the one the cache held for its day
WrongOffset == \E a \in BagToSet(served) : a.offset # a.held

\* C10: requests racing on the cache at the change of day: one of them is
\* answered with an offset other than the one the cache holds for the day on
\* which it read it.
C10_BoundaryRaceWrongOffset == BoundaryRace => WrongOffset

\* C10 (amended): no request is answered with such an offset: the offset of
\* every answer is the value the cache holds, for the day of the answer, when
\* the handler has read it.
C10_NoWrongOffset ==
  /\ ~WrongOffset
  /\ Answered("orderCount", 200) =>
       (lastGeneratedDate = resp.day /\ lastRandomValue = resp.offset)

\* C10 witness: the boundary case happened
C10_Witness == BoundaryRace

====
